---- MODULE Spec2Model ----
(***************************************************************************)
(* State-machine model of the later mandala engine (src/unnamed/part_001,  *)
(* component MandalaVisualizer): the effect that owns the engine state,    *)
(* its frame callback `draw`, and the effect cleanup.  Beside it, the hue  *)
(* of the FrequencyBars component (frequencyBars) and the frame callback   *)
(* of the earlier revision, src/src/components/MandalaVisualizer.tsx       *)
(* (earlier).                                                              *)
(*                                                                         *)
(* Numbers.  The engine computes in IEEE doubles; the model computes in    *)
(* exact fixed point:                                                      *)
(*   - band energies, energyHistory and beatDetector.history are integers  *)
(*     in units of 1/Unit, Unit = 255 * 600, which represents every band   *)
(*     mean of a byte array with at least 200 bins exactly;                *)
(*   - audioState.energyTrend is kept as recentSum - olderSum, i.e. in     *)
(*     units of 1/(3 * Unit);                                              *)
(*   - patternTransition is in units of 1/1000 (step 25, stable 1000),     *)
(*     symmetryTransition in units of 1/50 (step 1, stable 50),            *)
(*     beatDetector.confidence in units of 1/100 (beat +10, decay -1).     *)
(* Rounding error of the doubles (below 1e-13 on these quantities) is not  *)
(* modelled, except in Math.round, where an exact tie is resolved either   *)
(* way, and in beatDetector.confidence, whose double is kept exactly: it   *)
(* is confidence * double(0.01) + rounding * 2^-59.  A division keeps its  *)
(* dividend and divisor (Quot), so that a zero divisor is visible as NaN   *)
(* or Infinity.                                                            *)
(*                                                                         *)
(* hue and rotation are kept as the number of frames that advanced them.   *)
(* Not modelled: rotationSpeed, rotationDirection, fractalScale,           *)
(* fractalRotation and the waveform array, which only feed the colours     *)
(* and coordinates of the draw calls.                                      *)
(***************************************************************************)
EXTENDS Integers, Sequences, FiniteSets, TLC

\* ------------------------------------------------------------------ bounds
\* Rendered frames explored by Spec.
MaxFrame == 230

\* The audio is piecewise constant in Spec: the analyser's content changes
\* only between segments of SegmentLen rendered frames.
SegmentLen == 60

\* Rendered frames explored by SpecBeat, where the content may change on
\* every frame.
BeatFrames == 23

\* SpecFeat enumerates every byte array over ByteValues with at most
\* MaxSmallBins bins.
MaxSmallBins == 3

\* Frame callbacks of the frequency-bar visualizer explored by SpecBars.
MaxBarFrames == 1000

\* Rendered frames explored by SpecMount after the effect has run.
MountFrames == 8

\* Frame callbacks of the earlier revision explored by SpecEarlier.
EarlierFrames == 130

\* Sums of the first ten frequency bytes offered to the earlier revision:
\* bassLevel 0, about 0.78 (above 0.7) and 1 (above 0.85).
EarlierBass == {0, 2000, 2550}

\* Rendered frames explored by SpecBass.
MaxBassFrame == 380

\* Rendered frames explored by SpecPulse.
PulseFrames == 135

\* Rendered frames explored by SpecFail.
FailFrames == 5

\* --------------------------------------------------------------- constants
Unit == 255 * 600

\* The application's default transform size.
fftSize == 2048

\* analyser.frequencyBinCount
BufferLength == fftSize \div 2

SPIRAL == 0

FLOWER == 1

STARBURST == 2

NESTED_CIRCLES == 3

FRACTAL_TREE == 4

WAVE_PATTERN == 5

SYMMETRICAL_WEB == 6

minPatternDuration == 180

minSymmetry == 4

\* ------------------------------------------------------------ number helpers
Min(a, b) == IF a < b THEN a ELSE b

Max(a, b) == IF a > b THEN a ELSE b

Abs(a) == IF a < 0 THEN 0 - a ELSE a

\* JavaScript a / b on non-negative numbers, kept as dividend and divisor.
Quot(a, b) == [num |-> a, den |-> b]

\* A finite quotient in units of 1/Unit; exact, as every divisor used with
\* BufferLength bins (255 times 10, 30, 60, 100 or 200) divides Unit.
InUnits(q) == q.num * (Unit \div q.den)

\* Math.round(num / den), den > 0: floor(x + 0.5); an exact tie x = k + 0.5
\* is within rounding error of the double computation, so either neighbour.
MathRound(num, den) ==
  LET lo == (2 * num + den) \div (2 * den)
  IN  IF (2 * num + den) % (2 * den) = 0 THEN {lo - 1, lo} ELSE {lo}

RECURSIVE SumSeq(_)
SumSeq(s) == IF s = <<>> THEN 0 ELSE Head(s) + SumSeq(Tail(s))

\* array.slice(-n)
LastN(s, n) == SubSeq(s, Len(s) - n + 1, Len(s))

\* array.shift(); array.push(v)
ShiftPush(s, v) == Append(Tail(s), v)

\* ------------------------------------------------------- feature extraction
\* Sum of dataArray[i] for lo <= i < hi (0-based indices, as in the loop).
\* (Summed by halves to keep the evaluation shallow.)
RECURSIVE SumBins(_, _, _)
SumBins(dataArray, lo, hi) ==
  IF lo >= hi THEN 0
  ELSE IF hi = lo + 1 THEN dataArray[lo + 1]
  ELSE LET mid == (lo + hi) \div 2
       IN  SumBins(dataArray, lo, mid) + SumBins(dataArray, mid, hi)

\* Faulty variant: the width without Math.max(1, ...).
BandWidth_NoFloor(hi, lo) == hi - lo

\* Divisor of a band mean other than bass: Math.max(1, hi - lo).
BandWidth(hi, lo) == Max(1, hi - lo)

\* Faulty variant: the lowMid band starts one bin late (i > bassRange).
Extract_GapAfterBass(dataArray, bufferLength) ==
  LET bassRange    == Min(10, bufferLength)
      lowMidRange  == Min(40, bufferLength)
      highMidRange == Min(100, bufferLength)
      trebleRange  == Min(200, bufferLength)
      limit        == Min(200, bufferLength)
      totalSum   == SumBins(dataArray, 0, limit)
      bassSum    == SumBins(dataArray, 0, Min(bassRange, limit))
      lowMidSum  == SumBins(dataArray, Min(bassRange + 1, lowMidRange),
                            Min(lowMidRange, limit))
      highMidSum == SumBins(dataArray, lowMidRange, Min(highMidRange, limit))
      trebleSum  == SumBins(dataArray, highMidRange, Min(trebleRange, limit))
  IN  [average      |-> Quot(totalSum, limit * 255),
       bassLevel    |-> Quot(bassSum, bassRange * 255),
       lowMidLevel  |-> Quot(lowMidSum, BandWidth(lowMidRange, bassRange) * 255),
       highMidLevel |-> Quot(highMidSum, BandWidth(highMidRange, lowMidRange) * 255),
       trebleLevel  |-> Quot(trebleSum, BandWidth(trebleRange, highMidRange) * 255)]

\* The audio metrics of one frame, each as the quotient the code evaluates.
Extract(dataArray, bufferLength) ==
  LET bassRange    == Min(10, bufferLength)
      lowMidRange  == Min(40, bufferLength)
      highMidRange == Min(100, bufferLength)
      trebleRange  == Min(200, bufferLength)
      limit        == Min(200, bufferLength)
      totalSum   == SumBins(dataArray, 0, limit)
      bassSum    == SumBins(dataArray, 0, Min(bassRange, limit))
      lowMidSum  == SumBins(dataArray, bassRange, Min(lowMidRange, limit))
      highMidSum == SumBins(dataArray, lowMidRange, Min(highMidRange, limit))
      trebleSum  == SumBins(dataArray, highMidRange, Min(trebleRange, limit))
  IN  [average      |-> Quot(totalSum, limit * 255),
       bassLevel    |-> Quot(bassSum, bassRange * 255),
       lowMidLevel  |-> Quot(lowMidSum, BandWidth(lowMidRange, bassRange) * 255),
       highMidLevel |-> Quot(highMidSum, BandWidth(highMidRange, lowMidRange) * 255),
       trebleLevel  |-> Quot(trebleSum, BandWidth(trebleRange, highMidRange) * 255)]

\* ------------------------------------------------------------ sample frames
\* A sample frame of the analyser is described by the byte value of each
\* nominal band <<bins 0..9, 10..39, 40..99, 100..199>>; bins from 200 on,
\* which the engine never reads for its metrics, are 0.
Bin(fill, i) ==
  IF i < 10 THEN fill[1]
  ELSE IF i < 40 THEN fill[2]
  ELSE IF i < 100 THEN fill[3]
  ELSE IF i < 200 THEN fill[4]
  ELSE 0

\* The content of dataArray after getByteFrequencyData.
Data(fill, bufferLength) == [i \in 1..bufferLength |-> Bin(fill, i - 1)]

Silent == <<0, 0, 0, 0>>

BassOnly == <<255, 0, 0, 0>>

Full == <<255, 255, 255, 255>>

HalfTreble == <<0, 0, 0, 128>>

\* No bass, full upper bands: highMid above 0.7 and above the bass.
MidTreble == <<0, 0, 255, 255>>

\* Three frames of the same overall energy (sum 2550 over the 200 bins),
\* which the engine tells apart through the bass band only: bass 1.0,
\* bass 0.753 (above the beat threshold, below the impact threshold), bass 0.
HalfBass == <<192, 21, 0, 0>>

NoBass == <<0, 85, 0, 0>>

\* Bass 0.804, just above bassImpactThreshold, with and without energy in
\* the upper bands.
SoftBass == <<205, 0, 0, 0>>

SoftBassFull == <<205, 255, 255, 255>>

\* The sample frames fed in SpecBass: every one has bassLevel > 0.8.
BassFrames == {BassOnly, Full, SoftBass, SoftBassFull}

\* The sample frames fed in Spec.
SampleFrames == {Silent, BassOnly, Full, HalfTreble, MidTreble}

\* The sample frames fed in SpecBeat.
BeatSampleFrames == {NoBass, BassOnly, HalfBass}

AllFrames == SampleFrames \cup BeatSampleFrames \cup BassFrames

\* The inputs of SpecFeat: every array of at most MaxSmallBins bins over
\* ByteValues, and band-filled arrays of the lengths FeatLengths, which lie
\* on, next to and between the nominal cutoffs 10, 40, 100 and 200.
ByteValues == {0, 1, 255}

FeatLengths == {5, 10, 11, 39, 40, 41, 100, 101, 150, 200, 201, 256}

FeatFills == [1..4 -> {0, 128, 255}]

FeatInputs ==
  UNION {[1..n -> ByteValues] : n \in 0..MaxSmallBins}
    \cup {Data(fill, n) : fill \in FeatFills, n \in FeatLengths}

\* The audio metrics of every sample frame, as the engine computes them.
Metrics ==
  [fill \in AllFrames |-> Extract(Data(fill, BufferLength), BufferLength)]

\* Band energies of every sample frame, in units of 1/Unit.
Levels ==
  [fill \in AllFrames |->
     LET q == Metrics[fill]
     IN  [average      |-> InUnits(q.average),
          bassLevel    |-> InUnits(q.bassLevel),
          lowMidLevel  |-> InUnits(q.lowMidLevel),
          highMidLevel |-> InUnits(q.highMidLevel),
          trebleLevel  |-> InUnits(q.trebleLevel)]]

\* ---------------------------------------------------------- quality profile
\* performanceConfig and fractalDepth as left by detectPerformance.
LowEnd ==
  [drawEveryNthFrame |-> 3, maxSymmetry |-> 6,
   enableAdvancedEffects |-> FALSE, fractalDepth |-> 1]

MidRange ==
  [drawEveryNthFrame |-> 2, maxSymmetry |-> 8,
   enableAdvancedEffects |-> TRUE, fractalDepth |-> 2]

HighEnd ==
  [drawEveryNthFrame |-> 2, maxSymmetry |-> 10,
   enableAdvancedEffects |-> TRUE, fractalDepth |-> 2]

Mobile ==
  [drawEveryNthFrame |-> 3, maxSymmetry |-> 4,
   enableAdvancedEffects |-> FALSE, fractalDepth |-> 1]

\* navigator.hardwareConcurrency undefined: no branch taken, the initial
\* performanceConfig and fractalDepth stay.
Unprobed ==
  [drawEveryNthFrame |-> 2, maxSymmetry |-> 10,
   enableAdvancedEffects |-> TRUE, fractalDepth |-> 3]

detectPerformance == {LowEnd, MidRange, HighEnd, Mobile, Unprobed}

\* ------------------------------------------------------------------- state
VARIABLES
  performanceConfig,   \* drawEveryNthFrame, maxSymmetry, enableAdvancedEffects
  frameCounter,        \* callbacks run so far
  frame,               \* rendered frames so far
  audioState,          \* lastBassImpact, energyHistory, energyTrend, beatDetector
  symmetry, lastSymmetryChange, targetSymmetry, symmetryTransition,
  fractalDepth,
  currentPattern, targetPattern, patternTransition, patternChangeCounter,
  hue, rotation,       \* the number of frames that have advanced the hue and
                       \* the rotation angle (each rendered frame changes both:
                       \* the hue by 0.3 to 2.2 degrees, the rotation by a
                       \* speed that stays positive); their values are not
                       \* modelled
  rendered,            \* locals of the last rendered frame: the band energies,
                       \* isBeat and bassImpact (what the draw calls used)
  canvas,              \* the 2D context: its globalAlpha, and the drawPattern
                       \* calls of the last rendered frame with the
                       \* globalAlpha in force at each call
  sample,              \* the sample frame the analyser holds
  rafPending,          \* frame callbacks requested and not yet run
  mounted,             \* TRUE from the set-up of the effect until its
                       \* cleanup has run
  resizeListener,      \* the window resize listener is registered
  probe,               \* SpecFeat only: a frequency array, its length and
                       \* the audio metrics computed from it
  frequencyBars,       \* SpecBars only: the hue of the FrequencyBars
                       \* component, in half degrees, and the number of
                       \* frame callbacks it has run
  host,                \* what the effect finds when it runs: the analyser
                       \* prop, canvasRef.current and the 2D context are
                       \* there or not; and whether the effect has run
  outcome,             \* how the last frame callback ended ("skipped",
                       \* "rendered" or "threw"; "none" before the first)
                       \* and the number of callbacks that ended with an
                       \* uncaught exception
  earlier              \* SpecEarlier only: the state of the earlier revision
                       \* of the engine (MandalaVisualizer.tsx)

vars ==
  <<performanceConfig, frameCounter, frame, audioState, symmetry,
    lastSymmetryChange, targetSymmetry, symmetryTransition, fractalDepth,
    currentPattern, targetPattern, patternTransition, patternChangeCounter,
    hue, rotation, rendered, canvas, sample, rafPending, mounted,
    resizeListener, probe, frequencyBars, host, outcome, earlier>>

engineVars ==
  <<performanceConfig, frameCounter, frame, audioState, symmetry,
    lastSymmetryChange, targetSymmetry, symmetryTransition, fractalDepth,
    currentPattern, targetPattern, patternTransition, patternChangeCounter,
    hue, rotation, rendered, canvas, sample, rafPending, mounted,
    resizeListener>>

\* probe.metrics is <<>> until Analyse has run, then <<the metrics>>.
NoProbe == [bufferLength |-> 0, dataArray |-> <<>>, metrics |-> <<>>]

NoLevels ==
  [average |-> 0, bassLevel |-> 0, lowMidLevel |-> 0, highMidLevel |-> 0,
   trebleLevel |-> 0]

\* The effect body up to and including its first, synchronous call of draw,
\* which requests the first callback and returns on the frame-skip test
\* (frameCounter = 1, drawEveryNthFrame >= 2).
EngineStart ==
  {[performanceConfig |->
      [drawEveryNthFrame |-> profile.drawEveryNthFrame,
       maxSymmetry |-> profile.maxSymmetry,
       enableAdvancedEffects |-> profile.enableAdvancedEffects],
    fractalDepth |-> profile.fractalDepth,
    frameCounter |-> 1,
    frame |-> 0,
    audioState |->
      [lastBassImpact |-> 0,
       energyHistory |-> [i \in 1..8 |-> Unit \div 2],
       energyTrend |-> 0,
       beatDetector |->
         [history |-> [i \in 1..5 |-> 0], lastBeat |-> 0, confidence |-> 0,
          rounding |-> 0]],
    symmetry |-> 8,
    lastSymmetryChange |-> 0,
    targetSymmetry |-> 8,
    symmetryTransition |-> 50,
    currentPattern |-> FLOWER,
    targetPattern |-> FLOWER,
    patternTransition |-> 1000,
    patternChangeCounter |-> 0,
    hue |-> 0,
    rotation |-> 0,
    rendered |-> [levels |-> NoLevels, isBeat |-> FALSE, bassImpact |-> FALSE],
    canvas |-> [globalAlpha |-> 1000, calls |-> <<>>],
    sample |-> Silent,
    rafPending |-> 1,
    mounted |-> TRUE,
    resizeListener |-> TRUE] : profile \in detectPerformance}

\* The engine starts in one of the states of EngineStart.
EngineInit ==
  \E e \in EngineStart :
    /\ performanceConfig = e.performanceConfig
    /\ frameCounter = e.frameCounter
    /\ frame = e.frame
    /\ audioState = e.audioState
    /\ symmetry = e.symmetry
    /\ lastSymmetryChange = e.lastSymmetryChange
    /\ targetSymmetry = e.targetSymmetry
    /\ symmetryTransition = e.symmetryTransition
    /\ fractalDepth = e.fractalDepth
    /\ currentPattern = e.currentPattern
    /\ targetPattern = e.targetPattern
    /\ patternTransition = e.patternTransition
    /\ patternChangeCounter = e.patternChangeCounter
    /\ hue = e.hue
    /\ rotation = e.rotation
    /\ rendered = e.rendered
    /\ canvas = e.canvas
    /\ sample = e.sample
    /\ rafPending = e.rafPending
    /\ mounted = e.mounted
    /\ resizeListener = e.resizeListener

\* The same as the effect of a step: the effect body sets the engine up.
SetUp ==
  \E e \in EngineStart :
    /\ performanceConfig' = e.performanceConfig
    /\ frameCounter' = e.frameCounter
    /\ frame' = e.frame
    /\ audioState' = e.audioState
    /\ symmetry' = e.symmetry
    /\ lastSymmetryChange' = e.lastSymmetryChange
    /\ targetSymmetry' = e.targetSymmetry
    /\ symmetryTransition' = e.symmetryTransition
    /\ fractalDepth' = e.fractalDepth
    /\ currentPattern' = e.currentPattern
    /\ targetPattern' = e.targetPattern
    /\ patternTransition' = e.patternTransition
    /\ patternChangeCounter' = e.patternChangeCounter
    /\ hue' = e.hue
    /\ rotation' = e.rotation
    /\ rendered' = e.rendered
    /\ canvas' = e.canvas
    /\ sample' = e.sample
    /\ rafPending' = e.rafPending
    /\ mounted' = e.mounted
    /\ resizeListener' = e.resizeListener

\* FrequencyBars: let hue = 0, no callback run yet.
NoBars == [hue |-> 0, callbacks |-> 0]

\* The effect has run with the analyser, the canvas and its context there.
Ready ==
  [analyser |-> TRUE, canvasRef |-> TRUE, context |-> TRUE, effectRan |-> TRUE]

\* The earlier revision after its effect body, which ends with the first,
\* synchronous call of draw: drawEveryNthFrame is 1, so that call renders a
\* frame; it finds frame - lastSymmetryChange = 0 and patternChangeCounter
\* = 1, so it changes neither the symmetry nor the pattern, whatever the
\* audio, and draws patterns[0].
EarlierStart ==
  [frameCounter |-> 1, frame |-> 0, symmetry |-> 8, lastSymmetryChange |-> 0,
   fractalDepth |-> 3, currentPattern |-> 0, patternChangeCounter |-> 1,
   rafPending |-> 1, threw |-> FALSE]

\* No frame callback has run yet.
NoOutcome == [last |-> "none", uncaught |-> 0]

Init ==
  /\ EngineInit
  /\ probe = NoProbe
  /\ frequencyBars = NoBars
  /\ host = Ready
  /\ outcome = NoOutcome
  /\ earlier = EarlierStart

\* ------------------------------------------------------ steps of one frame
\* Faulty variant: olderAvg - recentAvg.
EnergyTrend_Swapped(energyHistory) ==
  SumSeq(SubSeq(energyHistory, 1, 3)) - SumSeq(LastN(energyHistory, 3))

\* recentAvg - olderAvg, times 3.
EnergyTrend(energyHistory) ==
  SumSeq(LastN(energyHistory, 3)) - SumSeq(SubSeq(energyHistory, 1, 3))

\* Faulty variant: cooldown tested with >= instead of >.
IsBeat_CooldownOffByOne(bassLevel, history, f, lastBeat) ==
  /\ bassLevel * Len(history) * 10 > SumSeq(history) * 12
  /\ bassLevel * 10 > 7 * Unit
  /\ f - lastBeat >= 10

\* Faulty variant: no cooldown test.
IsBeat_NoCooldown(bassLevel, history, f, lastBeat) ==
  /\ bassLevel * Len(history) * 10 > SumSeq(history) * 12
  /\ bassLevel * 10 > 7 * Unit

\* isBeat: bass above 1.2 times the mean of the history (the frame's own
\* value included), above the threshold 0.7, and the cooldown elapsed.
IsBeat(bassLevel, history, f, lastBeat) ==
  /\ bassLevel * Len(history) * 10 > SumSeq(history) * 12
  /\ bassLevel * 10 > 7 * Unit
  /\ f - lastBeat > 10

\* Faulty variant: the decay without Math.max(0, ...).
Confidence_NoFloor(confidence, isBeat) ==
  IF isBeat THEN Min(100, confidence + 10) ELSE confidence - 1

Confidence(confidence, isBeat) ==
  IF isBeat THEN Min(100, confidence + 10) ELSE Max(0, confidence - 1)

\* The double of beatDetector.confidence.  The doubles nearest to 0.01,
\* 0.1, 0.6 and the double 1 are, in units of 2^-59,
\*   0.01 = 5764607523034235 = Cent,    0.1 = 10 * Cent + 2,
\*   0.6  = 60 * Cent - 20,             1   = 100 * Cent - 12,
\* and every value confidence takes is a multiple of 2^-59, written as
\* h * Cent + d with h the number of hundredths and d the rounding part.
\* Cent enters the rounding only through its remainder modulo 128.
CentMod == 123
TenthOffset == 2
SixTenthsOffset == -20
OneOffset == -12

\* The spacing of the doubles around h * Cent + d, in units of 2^-59:
\* 2^-59 below 2^-6, doubling at 2^-6, 2^-5, 2^-4, 2^-3, 2^-2 = 25 * Cent - 3
\* and 2^-1 = 50 * Cent - 6.
Grid(h, d) ==
  IF h <= 1 THEN 1
  ELSE IF h <= 3 THEN 2
  ELSE IF h <= 6 THEN 4
  ELSE IF h <= 12 THEN 8
  ELSE IF h <= 24 THEN 16
  ELSE IF h = 25 THEN (IF d >= -3 THEN 32 ELSE 16)
  ELSE IF h <= 49 THEN 32
  ELSE IF h = 50 THEN (IF d >= -6 THEN 64 ELSE 32)
  ELSE 64

\* The rounding part of the double nearest to h * Cent + d (ties to even).
RoundToDouble(h, d) ==
  LET g == Grid(h, d)
      m == (h * CentMod + d) % (2 * g)
      r == m % g
  IN  IF r = 0 THEN d
      ELSE IF 2 * r < g THEN d - r
      ELSE IF 2 * r > g THEN d + g - r
      ELSE IF m >= g THEN d + g - r
      ELSE d - r

\* Faulty variant: the sums and differences are exact, 0.1 is ten times
\* 0.01 (decimal arithmetic).
Rounding_Decimal(h, d, isBeat) == 0

\* The rounding part of Math.min(1, confidence + 0.1) on a beat and of
\* Math.max(0, confidence - 0.01) otherwise; the hundredths are Confidence.
Rounding(h, d, isBeat) ==
  IF isBeat
  THEN LET sum == RoundToDouble(h + 10, d + TenthOffset)
       IN  IF h + 10 > 100 \/ (h + 10 = 100 /\ sum > OneOffset)
           THEN OneOffset
           ELSE sum
  ELSE IF h = 0 THEN 0
       ELSE LET difference == RoundToDouble(h - 1, d)
            IN  IF h - 1 = 0 /\ difference < 0 THEN 0 ELSE difference

\* confidence > 0.6, on the doubles.
Confident(h, d) == h > 60 \/ (h = 60 /\ d > SixTenthsOffset)

\* Faulty variant: cooldown tested with >= instead of >.
BassImpact_CooldownOffByOne(bassLevel, f, lastBassImpact) ==
  /\ bassLevel * 10 > 8 * Unit
  /\ f - lastBassImpact >= 30

\* bassImpact: bass above bassImpactThreshold 0.8 and 30 frames elapsed.
BassImpact(bassLevel, f, lastBassImpact) ==
  /\ bassLevel * 10 > 8 * Unit
  /\ f - lastBassImpact > 30

EnergyChange(energyTrend) == Abs(energyTrend) * 100 > 7 * 3 * Unit

\* Faulty variant: frequencyShift without the comparison with history[0].
FrequencyShift_NoHistory(levels, history) ==
  Abs(levels.bassLevel - levels.trebleLevel) * 10 > 3 * Unit

\* history[0] is read after the shift and push of this frame.
FrequencyShift(levels, history) ==
  /\ Abs(levels.bassLevel - levels.trebleLevel) * 10 > 3 * Unit
  /\ Abs(levels.bassLevel - history[1]) * 10 > 2 * Unit

\* Faulty variant: no test of the minimum pattern duration.
PatternTrigger_NoDwell(bassImpact, energyChange, frequencyShift, counter, transition) ==
  /\ bassImpact \/ (energyChange /\ frequencyShift)
  /\ transition = 1000

\* The condition of a pattern change, tested after patternChangeCounter++.
PatternTrigger(bassImpact, energyChange, frequencyShift, counter, transition) ==
  /\ bassImpact \/ (energyChange /\ frequencyShift)
  /\ counter > minPatternDuration
  /\ transition = 1000

\* Faulty variant: availablePatterns without the filter that removes the
\* current pattern.
AvailablePatterns_NoFilter(levels, enableAdvancedEffects, current) ==
  LET byDevice ==
        IF enableAdvancedEffects
        THEN {SPIRAL, FLOWER, STARBURST, NESTED_CIRCLES, FRACTAL_TREE,
              WAVE_PATTERN, SYMMETRICAL_WEB}
        ELSE {SPIRAL, FLOWER, STARBURST, NESTED_CIRCLES}
      byBand ==
        IF /\ levels.bassLevel * 10 > 8 * Unit
           /\ levels.bassLevel > levels.highMidLevel
        THEN {STARBURST, NESTED_CIRCLES, SYMMETRICAL_WEB}
        ELSE IF /\ levels.highMidLevel * 10 > 7 * Unit
                /\ levels.highMidLevel > levels.bassLevel
        THEN {SPIRAL, WAVE_PATTERN, FLOWER}
        ELSE IF levels.trebleLevel * 10 > 7 * Unit
        THEN {FRACTAL_TREE, NESTED_CIRCLES, FLOWER}
        ELSE byDevice
  IN  byBand

\* availablePatterns after the filter that removes the current pattern.
AvailablePatterns(levels, enableAdvancedEffects, current) ==
  LET byDevice ==
        IF enableAdvancedEffects
        THEN {SPIRAL, FLOWER, STARBURST, NESTED_CIRCLES, FRACTAL_TREE,
              WAVE_PATTERN, SYMMETRICAL_WEB}
        ELSE {SPIRAL, FLOWER, STARBURST, NESTED_CIRCLES}
      byBand ==
        IF /\ levels.bassLevel * 10 > 8 * Unit
           /\ levels.bassLevel > levels.highMidLevel
        THEN {STARBURST, NESTED_CIRCLES, SYMMETRICAL_WEB}
        ELSE IF /\ levels.highMidLevel * 10 > 7 * Unit
                /\ levels.highMidLevel > levels.bassLevel
        THEN {SPIRAL, WAVE_PATTERN, FLOWER}
        ELSE IF levels.trebleLevel * 10 > 7 * Unit
        THEN {FRACTAL_TREE, NESTED_CIRCLES, FLOWER}
        ELSE byDevice
  IN  byBand \ {current}

\* Faulty variant: the completed transition does not set currentPattern.
AdvancePattern_NoCommit(transition, current, target) ==
  IF transition < 1000
  THEN [patternTransition |-> Min(1000, transition + 25),
        currentPattern |-> current]
  ELSE [patternTransition |-> transition, currentPattern |-> current]

\* patternTransition < 1: advance by 0.025, and on reaching 1 the target
\* becomes the current pattern.
AdvancePattern(transition, current, target) ==
  IF transition < 1000
  THEN LET t == Min(1000, transition + 25)
       IN  [patternTransition |-> t,
            currentPattern |-> IF t = 1000 THEN target ELSE current]
  ELSE [patternTransition |-> transition, currentPattern |-> current]

SymmetryTrigger(bassImpact, confident, f, lastChange, energyTrend) ==
  \/ bassImpact /\ confident
  \/ f - lastChange > 120 /\ Abs(energyTrend) * 100 > 15 * 3 * Unit

\* Math.floor(Math.random() * d / 2) for an even d, Math.random() in [0, 1).
RandomFloorHalf(d) == IF d > 0 THEN 0..(d \div 2 - 1) ELSE (d \div 2)..0

\* Faulty variant: targetSymmetry not capped by maxSymmetry.
ClampSymmetry_NoCap(maxSymm, t) == Max(minSymmetry, t)

\* Faulty variant: the cap is the literal 10 instead of the profile's value.
ClampSymmetry_CapTen(maxSymm, t) == Min(10, Max(minSymmetry, t))

\* Math.min(maxSymm, Math.max(minSymmetry, targetSymmetry))
ClampSymmetry(maxSymm, t) == Min(maxSymm, Max(minSymmetry, t))

\* The values targetSymmetry can take on a symmetry change.
TargetSymmetries(levels, maxSymm) ==
  LET drawn ==
        IF /\ levels.bassLevel * 10 > 7 * Unit
           /\ levels.bassLevel > levels.highMidLevel
        THEN {minSymmetry + r * 2 : r \in 0..3}
        ELSE IF levels.lowMidLevel * 10 > 6 * Unit
        THEN {minSymmetry + 2 + r * 2 : r \in 0..3}
        ELSE {minSymmetry + 4 + r * 2 : r \in RandomFloorHalf(maxSymm - 8)}
  IN  {ClampSymmetry(maxSymm, t) : t \in drawn}

\* Math.round(symmetry * (1 - t) + targetSymmetry * t), t = transition / 50.
Interpolate(sym, target, transition) ==
  MathRound(sym * (50 - transition) + target * transition, 50)

\* Faulty variant: a symmetry change does not record its frame.
LastSymmetryChange_Stale(trigger, f, lastChange) == lastChange

\* lastSymmetryChange = frame, on a symmetry change.
LastSymmetryChange(trigger, f, lastChange) == IF trigger THEN f ELSE lastChange

\* Faulty variant: the average is scaled by 3 instead of 2.
FractalDepth_TimesThree(average) == 2 + (average * 3) \div Unit

\* fractalDepth = 2 + Math.floor(average * 2)
FractalDepth(average) == 2 + (average * 2) \div Unit

\* Faulty variant: the profile's cap is not applied at draw time.
ActualSymmetry_Uncapped(sym, maxSymm) == sym

\* const actualSymmetry = Math.min(symmetry, performanceConfig.maxSymmetry)
ActualSymmetry(sym, maxSymm) == Min(sym, maxSymm)

\* The loop over the symmetry copies: actualSymmetry calls of drawPattern
\* under the globalAlpha in force (in thousandths).
DrawSymmetric(pattern, n, alpha) ==
  [i \in 1..n |-> [pattern |-> pattern, globalAlpha |-> alpha]]

\* Faulty variant: the target pattern is drawn at oldOpacity as well.
DrawPatterns_SameOpacity(transition, current, target, n, alpha) ==
  IF transition < 1000
  THEN [globalAlpha |-> 1000,
        calls |-> DrawSymmetric(current, n, 1000 - transition)
                    \o DrawSymmetric(target, n, 1000 - transition)]
  ELSE [globalAlpha |-> alpha, calls |-> DrawSymmetric(current, n, alpha)]

\* The pattern drawing of a frame: the crossfade while patternTransition < 1
\* (which leaves globalAlpha at 1), otherwise the current pattern under the
\* context's globalAlpha as it stands.
DrawPatterns(transition, current, target, n, alpha) ==
  IF transition < 1000
  THEN [globalAlpha |-> 1000,
        calls |-> DrawSymmetric(current, n, 1000 - transition)
                    \o DrawSymmetric(target, n, transition)]
  ELSE [globalAlpha |-> alpha, calls |-> DrawSymmetric(current, n, alpha)]

\* --------------------------------------------------------------- callbacks
\* The state updates of a rendered frame, from the analyser's sample frame
\* `fill`: everything draw does after the frame-skip test and before it
\* draws the patterns.
Update(fill) ==
  LET f == frame + 1
      levels == Levels[fill]
      bd == audioState.beatDetector
      energyHistory == ShiftPush(audioState.energyHistory, levels.average)
      energyTrend == EnergyTrend(energyHistory)
      history == ShiftPush(bd.history, levels.bassLevel)
      isBeat == IsBeat(levels.bassLevel, history, f, bd.lastBeat)
      confidence == Confidence(bd.confidence, isBeat)
      rounding == Rounding(bd.confidence, bd.rounding, isBeat)
      bassImpact == BassImpact(levels.bassLevel, f, audioState.lastBassImpact)
      counter == patternChangeCounter + 1
      patternTrigger ==
        PatternTrigger(bassImpact, EnergyChange(energyTrend),
                       FrequencyShift(levels, history), counter,
                       patternTransition)
      symmetryTrigger ==
        SymmetryTrigger(bassImpact, Confident(confidence, rounding), f,
                        lastSymmetryChange,
                        energyTrend)
  IN
  /\ frame' = f
  /\ sample' = fill
  /\ audioState' =
       [lastBassImpact |-> IF bassImpact THEN f ELSE audioState.lastBassImpact,
        energyHistory |-> energyHistory,
        energyTrend |-> energyTrend,
        beatDetector |->
          [history |-> history,
           lastBeat |-> IF isBeat THEN f ELSE bd.lastBeat,
           confidence |-> confidence,
           rounding |-> rounding]]
  /\ rendered' = [levels |-> levels, isBeat |-> isBeat, bassImpact |-> bassImpact]
  /\ \E target \in IF patternTrigger
                   THEN AvailablePatterns(levels,
                          performanceConfig.enableAdvancedEffects, currentPattern)
                   ELSE {targetPattern} :
       LET adv == AdvancePattern(IF patternTrigger THEN 0 ELSE patternTransition,
                                 currentPattern, target)
       IN  /\ targetPattern' = target
           /\ patternTransition' = adv.patternTransition
           /\ currentPattern' = adv.currentPattern
  /\ patternChangeCounter' = IF patternTrigger THEN 0 ELSE counter
  /\ \E ts \in IF symmetryTrigger
               THEN TargetSymmetries(levels, performanceConfig.maxSymmetry)
               ELSE {targetSymmetry} :
       LET st0 == IF symmetryTrigger THEN 0 ELSE symmetryTransition
           st  == IF st0 < 50 THEN Min(50, st0 + 1) ELSE st0
       IN  /\ targetSymmetry' = ts
           /\ symmetryTransition' = st
           /\ symmetry' \in IF st0 < 50 THEN Interpolate(symmetry, ts, st)
                            ELSE {symmetry}
  /\ lastSymmetryChange' =
       LastSymmetryChange(symmetryTrigger, f, lastSymmetryChange)
  /\ fractalDepth' = IF symmetryTrigger THEN FractalDepth(levels.average)
                     ELSE fractalDepth
  /\ rotation' = rotation + 1
  /\ hue' = hue + 1

\* A rendered frame: the state updates, then the pattern drawing.
Render(fill) ==
  /\ Update(fill)
  /\ canvas' = DrawPatterns(patternTransition', currentPattern', targetPattern',
                            ActualSymmetry(symmetry',
                                           performanceConfig.maxSymmetry),
                            canvas.globalAlpha)

\* Faulty variant: the next callback is requested at the end of the frame,
\* so a callback that throws requests none.
Requested_AtTheEnd(pending, threw) ==
  IF threw THEN pending - 1 ELSE (pending - 1) + 1

\* The callbacks pending after a callback has run: the one that ran is
\* gone, and its first statement, requestAnimationFrame(draw), has requested
\* one more, whether or not the rest of the callback threw.
Requested(pending, threw) == (pending - 1) + 1

\* Faulty variant: no frame is skipped.
Renders_Always(counter, n) == TRUE

\* The frame-skip test: the callback returns unless this holds.
Renders(counter, n) == counter % n = 0

\* The frame callback: request the next callback, count it, and either
\* return on the frame-skip test or render.
draw(fill) ==
  /\ rafPending > 0
  /\ rafPending' = Requested(rafPending, FALSE)
  /\ frameCounter' = frameCounter + 1
  /\ UNCHANGED <<performanceConfig, mounted, resizeListener, probe,
                 frequencyBars, host, earlier>>
  /\ IF ~Renders(frameCounter + 1, performanceConfig.drawEveryNthFrame)
     THEN /\ UNCHANGED <<frame, audioState, symmetry, lastSymmetryChange,
                         targetSymmetry, symmetryTransition, fractalDepth,
                         currentPattern, targetPattern, patternTransition,
                         patternChangeCounter, hue, rotation, rendered,
                         canvas, sample>>
          /\ outcome' = [outcome EXCEPT !.last = "skipped"]
     ELSE /\ Render(fill)
          /\ outcome' = [outcome EXCEPT !.last = "rendered"]

\* The pattern drawing cut short by an exception in one of its drawPattern
\* calls: the calls before it were made, and the context keeps the
\* globalAlpha in force at the call that threw (ctx.restore is not reached).
DrawInterrupted(full) ==
  {[globalAlpha |-> full.calls[k].globalAlpha,
    calls |-> SubSeq(full.calls, 1, k - 1)] : k \in 1..Len(full.calls)}

\* A frame callback that throws: it has requested the next callback and
\* passed the frame-skip test; the exception comes either from the analyser
\* (after frame++, before any state of the frame is updated) or from the
\* pattern drawing (after all state of the frame is updated).
drawThrows(fill) ==
  /\ rafPending > 0
  /\ Renders(frameCounter + 1, performanceConfig.drawEveryNthFrame)
  /\ rafPending' = Requested(rafPending, TRUE)
  /\ frameCounter' = frameCounter + 1
  /\ outcome' = [last |-> "threw", uncaught |-> outcome.uncaught + 1]
  /\ UNCHANGED <<performanceConfig, mounted, resizeListener, probe,
                 frequencyBars, host, earlier>>
  /\ \/ /\ frame' = frame + 1
        /\ UNCHANGED <<audioState, symmetry, lastSymmetryChange,
                       targetSymmetry, symmetryTransition, fractalDepth,
                       currentPattern, targetPattern, patternTransition,
                       patternChangeCounter, hue, rotation, rendered, canvas,
                       sample>>
     \/ /\ Update(fill)
        /\ canvas' \in
             DrawInterrupted(
               DrawPatterns(patternTransition', currentPattern', targetPattern',
                            ActualSymmetry(symmetry',
                                           performanceConfig.maxSymmetry),
                            canvas.globalAlpha))

\* The cleanup returned by the effect: it removes the resize listener.
Cleanup ==
  /\ mounted
  /\ mounted' = FALSE
  /\ resizeListener' = FALSE
  /\ UNCHANGED <<performanceConfig, frameCounter, frame, audioState, symmetry,
                 lastSymmetryChange, targetSymmetry, symmetryTransition,
                 fractalDepth, currentPattern, targetPattern, patternTransition,
                 patternChangeCounter, hue, rotation, rendered, canvas, sample,
                 rafPending, probe, frequencyBars, host, outcome, earlier>>

\* ---------------------------------------------------------- specifications
\* The analyser's content changes only at a segment boundary.
Frame ==
  \E fill \in SampleFrames :
    /\ frame < MaxFrame
    /\ fill = sample \/ frame % SegmentLen = 0
    /\ draw(fill)

Next == Frame \/ Cleanup

Spec == Init /\ [][Next]_vars

\* The analyser's content may change on every frame.
BeatFrame ==
  \E fill \in BeatSampleFrames :
    /\ frame < BeatFrames
    /\ draw(fill)

NextBeat == BeatFrame \/ Cleanup

SpecBeat == Init /\ [][NextBeat]_vars

\* The audio metrics as a pure function: the input is drawn by InitFeat and
\* Analyse applies the computation of one frame to it.
InitFeat ==
  /\ EngineInit
  /\ \E dataArray \in FeatInputs :
       probe = [bufferLength |-> Len(dataArray), dataArray |-> dataArray,
                metrics |-> <<>>]
  /\ frequencyBars = NoBars
  /\ host = Ready
  /\ outcome = NoOutcome
  /\ earlier = EarlierStart

Analyse ==
  /\ probe.metrics = <<>>
  /\ probe.dataArray \in FeatInputs
  /\ probe' = [probe EXCEPT
                 !.metrics = <<Extract(probe.dataArray, probe.bufferLength)>>]
  /\ UNCHANGED <<engineVars, frequencyBars, host, outcome, earlier>>

NextFeat == Analyse

SpecFeat == InitFeat /\ [][NextFeat]_vars

\* The hue accumulator of the FrequencyBars component (CircleVisualizer,
\* WaveformVisualizer and AudioVisualizer hold the same statement), in half
\* degrees: multiples of 0.5 below 360 are exact in doubles.
HalfDegrees == 2

\* Faulty variant: the hue advances without wrapping.
AdvanceHue_NoWrap(h) == h + 1

\* hue = (hue + 0.5) % 360
AdvanceHue(h) == (h + 1) % (360 * HalfDegrees)

\* The frame callback of FrequencyBars, reduced to its hue: every callback
\* renders, there is no frame skipping.
drawBars ==
  /\ frequencyBars.callbacks < MaxBarFrames
  /\ frequencyBars' = [hue |-> AdvanceHue(frequencyBars.hue),
                       callbacks |-> frequencyBars.callbacks + 1]
  /\ UNCHANGED <<engineVars, probe, host, outcome, earlier>>

NextBars == drawBars

SpecBars == Init /\ [][NextBars]_vars

\* The component before its effect runs: no engine state exists, no
\* listener is registered, no callback is requested, nothing is drawn.
NotSetUp ==
  /\ canvas = [globalAlpha |-> 1000, calls |-> <<>>]
  /\ rafPending = 0
  /\ mounted = FALSE
  /\ resizeListener = FALSE
  /\ performanceConfig = "unset"
  /\ frameCounter = "unset"
  /\ frame = "unset"
  /\ audioState = "unset"
  /\ symmetry = "unset"
  /\ lastSymmetryChange = "unset"
  /\ targetSymmetry = "unset"
  /\ symmetryTransition = "unset"
  /\ fractalDepth = "unset"
  /\ currentPattern = "unset"
  /\ targetPattern = "unset"
  /\ patternTransition = "unset"
  /\ patternChangeCounter = "unset"
  /\ hue = "unset"
  /\ rotation = "unset"
  /\ rendered = "unset"
  /\ sample = "unset"

InitMount ==
  /\ NotSetUp
  /\ probe = NoProbe
  /\ frequencyBars = NoBars
  /\ outcome = NoOutcome
  /\ earlier = EarlierStart
  /\ host \in [analyser : BOOLEAN, canvasRef : BOOLEAN, context : BOOLEAN,
                effectRan : {FALSE}]

\* Faulty variant: the 2D context is not tested.
Guards_NoContextTest(h) == h.analyser /\ h.canvasRef

\* The two early returns of the effect pass.
Guards(h) == h.analyser /\ h.canvasRef /\ h.context

\* The effect: it returns at a failing guard, otherwise it sets the engine
\* up and calls draw for the first time.
useEffect ==
  /\ ~host.effectRan
  /\ host' = [host EXCEPT !.effectRan = TRUE]
  /\ IF Guards(host) THEN SetUp ELSE UNCHANGED engineVars
  /\ UNCHANGED <<probe, frequencyBars, outcome, earlier>>

\* A frame callback, if one is pending.
MountFrame ==
  /\ rafPending > 0
  /\ frame < MountFrames
  /\ Frame

\* Audio whose bass stays above the impact threshold; its content changes
\* only at a segment boundary.
BassFrame ==
  \E fill \in BassFrames :
    /\ frame < MaxBassFrame
    /\ fill = sample \/ frame % SegmentLen = 0
    /\ draw(fill)

NextBass == BassFrame \/ Cleanup

SpecBass == Init /\ [][NextBass]_vars

\* The shortest spacing of two beats: frame - lastBeat > 10.
PulseEvery == 11

\* A bass pulse on every PulseEvery-th rendered frame, silence between.
PulseFrame ==
  \E fill \in SampleFrames :
    /\ frame < PulseFrames
    /\ IF (frame + 1) % PulseEvery = 0 THEN fill \in {BassOnly, Full}
       ELSE fill = Silent
    /\ draw(fill)

NextPulse == PulseFrame \/ Cleanup

SpecPulse == Init /\ [][NextPulse]_vars

\* ------------------------------------------------ the earlier revision
\* const patterns = [drawSpiral, ..., drawSymmetricalWeb]: indices 0 to 6.
patterns == 0..6

\* const mindBlowingPatterns = [6, 7, 8, 9]
mindBlowingPatterns == {6, 7, 8, 9}

\* The values currentPattern can take on a pattern change: an entry of
\* mindBlowingPatterns (Math.random() < 0.7) or
\* Math.floor(Math.random() * patterns.length).
EarlierPatternChoice == mindBlowingPatterns \cup 0..(Cardinality(patterns) - 1)

\* The earlier revision has no statement that assigns frame after
\* `let frame = 0`.
EarlierFrame(f) == f

\* The frame callback of the earlier revision. bassSum is the sum of the
\* first ten frequency bytes (bassLevel = bassSum / 10 / 255); coin is
\* Math.random() < 0.15. patterns[currentPattern] is undefined for an index
\* outside the table, and calling it throws a TypeError in the first
\* iteration of the symmetry loop.
drawEarlier(bassSum, coin) ==
  LET f == EarlierFrame(earlier.frame)
      symmetryChange ==
        f - earlier.lastSymmetryChange > 60 /\ bassSum * 10 > 7 * 2550
      counter == earlier.patternChangeCounter + 1
      patternChange == bassSum * 100 > 85 * 2550 /\ coin /\ counter > 60
  IN
  /\ earlier.rafPending > 0
  /\ earlier.frameCounter < EarlierFrames
  /\ \E sym \in IF symmetryChange THEN {4 + r * 2 : r \in 0..11}
                  ELSE {earlier.symmetry} :
     \E depth \in IF symmetryChange THEN 2..4 ELSE {earlier.fractalDepth} :
     \E pattern \in IF patternChange THEN EarlierPatternChoice
                     ELSE {earlier.currentPattern} :
       earlier' =
         [frameCounter |-> earlier.frameCounter + 1,
          frame |-> f,
          symmetry |-> sym,
          lastSymmetryChange |->
            IF symmetryChange THEN f ELSE earlier.lastSymmetryChange,
          fractalDepth |-> depth,
          currentPattern |-> pattern,
          patternChangeCounter |-> IF patternChange THEN 0 ELSE counter,
          rafPending |-> Requested(earlier.rafPending, pattern \notin patterns),
          threw |-> pattern \notin patterns]
  /\ UNCHANGED <<engineVars, probe, frequencyBars, host, outcome>>

EarlierCallback ==
  \E bassSum \in EarlierBass : \E coin \in BOOLEAN : drawEarlier(bassSum, coin)

NextEarlier == EarlierCallback

SpecEarlier == Init /\ [][NextEarlier]_vars

\* Frame callbacks any of which may throw, on steady audio.
FailFrame ==
  \E fill \in SampleFrames :
    /\ frame < FailFrames
    /\ fill = sample \/ frame = 0
    /\ draw(fill) \/ drawThrows(fill)

NextFail == FailFrame \/ Cleanup

SpecFail == Init /\ [][NextFail]_vars

NextMount == useEffect \/ MountFrame \/ Cleanup

SpecMount == InitMount /\ [][NextMount]_vars

\* ------------------------------------------------- what a frame draws
\* The state after a rendered frame holds what its draw calls used.
actualSymmetry == Min(symmetry, performanceConfig.maxSymmetry)

\* The patterns passed to drawPattern: both during a crossfade.
DrawnPatterns ==
  IF patternTransition < 1000 THEN {currentPattern, targetPattern}
  ELSE {currentPattern}

\* drawSpiral: colorBalance = x / (bassLevel + highMidLevel)
ColorBalanceDivisor == rendered.levels.bassLevel + rendered.levels.highMidLevel

\* drawStarburst, bassLevel > 0.4:
\* colorIntensity = bassLevel / (bassLevel + highMidLevel + 0.1)
ColorIntensityDivisor ==
  rendered.levels.bassLevel + rendered.levels.highMidLevel + Unit \div 10

\* drawBranch(x, y, length, angle, depth), reduced to what decides the shape
\* of the recursion: the depth argument and the test of the middle branch,
\* which is the same for every call of one frame.  The result counts the
\* branch strokes of the call and of the calls below it, collects the depth
\* arguments of all these calls, and gives the height of the call tree.
RECURSIVE drawBranch(_, _)
drawBranch(depth, middle) ==
  IF depth = 0
  THEN [strokes |-> 0, depths |-> {0}, height |-> 1]
  ELSE LET right == drawBranch(depth - 1, middle)
           left  == drawBranch(depth - 1, middle)
           calls == IF depth > 1 /\ middle
                    THEN <<right, left, drawBranch(depth - 1, middle)>>
                    ELSE <<right, left>>
       IN  [strokes |-> 1 + SumSeq([i \in 1..Len(calls) |-> calls[i].strokes]),
            depths  |-> {depth} \cup UNION {calls[i].depths : i \in 1..Len(calls)},
            height  |-> 1 + right.height]

\* The call trees of drawBranch for the depths 1 to 4, with and without the
\* middle branch.
Trees == [depth \in 1..4 |-> [middle \in BOOLEAN |-> drawBranch(depth, middle)]]

\* drawFractalTree: the middle branch is added when bassLevel > 0.6 or
\* lowMidLevel > 0.7.
drawFractalTree(levels, depth) ==
  Trees[depth][levels.bassLevel * 10 > 6 * Unit
                 \/ levels.lowMidLevel * 10 > 7 * Unit]

\* ------------------------------------------------- the colours of a frame
\* The alpha component of every hsla colour a pattern function emits, as
\* the quotient (c * Unit + weighted) / (100 * Unit): c hundredths plus band
\* energies or amplitudes (in units of 1/Unit) weighted in hundredths.
Alpha(c, weighted) == Quot(c * Unit + weighted, 100 * Unit)

\* amplitude = dataArray[freqIndex] / 255, for a byte of the array.
Amplitude(byte) == byte * (Unit \div 255)

\* drawSpiral: the dots (treble > 0.5) at 0.7 and the gradient stops at
\* 0.4 + colorBalance * 0.3, colorBalance being the larger of bass and
\* highMid over their sum.
drawSpiral(levels) ==
  LET larger == Max(levels.bassLevel, levels.highMidLevel)
      sum    == levels.bassLevel + levels.highMidLevel
  IN  (IF levels.trebleLevel * 10 > 5 * Unit THEN {Alpha(70, 0)} ELSE {})
        \cup {Quot(4 * sum + 3 * larger, 10 * sum)}

\* drawFlower: petal gradient, inner detail (lowMid > 0.3), highlights
\* (treble > 0.4).
drawFlower(levels) ==
  {Alpha(50, 30 * levels.bassLevel), Alpha(50, 30 * levels.lowMidLevel),
   Alpha(50, 30 * levels.trebleLevel)}
    \cup (IF levels.lowMidLevel * 10 > 3 * Unit
          THEN {Alpha(60, 40 * levels.lowMidLevel)} ELSE {})
    \cup (IF levels.trebleLevel * 10 > 4 * Unit
          THEN {Alpha(30, 50 * levels.trebleLevel)} ELSE {})

\* drawStarburst: per ray of amplitude >= 0.15 the gradient stops, the dot
\* and (highMid > 0.6, treble > 0.5) the secondary dot; the centre burst
\* when bass > 0.4.
drawStarburst(levels, bytes) ==
  UNION {LET a == Amplitude(byte)
         IN  IF a * 100 < 15 * Unit THEN {}
             ELSE {Alpha(40, 60 * a), Alpha(20, 80 * a), Alpha(0, 100 * a)}
                    \cup (IF /\ levels.highMidLevel * 10 > 6 * Unit
                             /\ levels.trebleLevel * 10 > 5 * Unit
                          THEN {Alpha(0, 70 * a)} ELSE {}) :
         byte \in bytes}
    \cup (IF levels.bassLevel * 10 > 4 * Unit
          THEN {Alpha(0, 80 * levels.bassLevel),
                Alpha(0, 40 * levels.bassLevel), Alpha(0, 0)}
          ELSE {})

\* drawNestedCircles: per circle its opacity, and the cross lines when the
\* amplitude is above 0.5.
drawNestedCircles(levels, bytes) ==
  UNION {LET a == Amplitude(byte)
         IN  {Alpha(20, 80 * a)}
               \cup (IF a * 10 > 5 * Unit
                     THEN {Alpha(10, 30 * levels.highMidLevel + 20 * a)}
                     ELSE {}) :
         byte \in bytes}

\* drawFractalTree: a branch at depth d is stroked at 0.4 + d * 0.15, the
\* leaves are filled at 0.6 + highMid * 0.4.
FractalTreeAlphas(levels, depth) ==
  {Alpha(40 + 15 * d, 0) : d \in drawFractalTree(levels, depth).depths \ {0}}
    \cup {Alpha(60, 40 * levels.highMidLevel)}

\* drawWavePattern: ringOpacity of each of the ringCount rings, and the
\* particles when bass > 0.5 or highMid > 0.7.
drawWavePattern(levels) ==
  LET ringCount == 3 + (levels.lowMidLevel * 3) \div Unit
  IN  {Alpha(20 + (ringCount - ring) * 10, 20 * levels.bassLevel) :
         ring \in 0..(ringCount - 1)}
        \cup (IF \/ levels.bassLevel * 10 > 5 * Unit
                 \/ levels.highMidLevel * 10 > 7 * Unit
              THEN {Alpha(30, 40 * levels.highMidLevel)} ELSE {})

\* drawSymmetricalWeb: ringOpacity of each of the webRings rings, and the
\* intersection dots of amplitude >= 0.4 (drawn when highMid > 0.5 or
\* treble > 0.6, and the energy factor allows).
drawSymmetricalWeb(levels, bytes) ==
  LET webRings ==
        3 + ((levels.lowMidLevel + levels.highMidLevel) * 6) \div Unit
  IN  {Alpha(15 + (webRings - ring) * 5, 15 * levels.bassLevel) :
         ring \in 0..(webRings - 1)}
        \cup (IF \/ levels.highMidLevel * 10 > 5 * Unit
                 \/ levels.trebleLevel * 10 > 6 * Unit
              THEN {Alpha(40, 30 * Amplitude(byte)) :
                      byte \in {b \in bytes : Amplitude(b) * 10 >= 4 * Unit}}
              ELSE {})

\* drawPattern: the alphas emitted for a pattern; any other index draws the
\* flower.
drawPattern(pattern, levels, bytes, depth) ==
  CASE pattern = SPIRAL -> drawSpiral(levels)
    [] pattern = STARBURST -> drawStarburst(levels, bytes)
    [] pattern = NESTED_CIRCLES -> drawNestedCircles(levels, bytes)
    [] pattern = FRACTAL_TREE -> FractalTreeAlphas(levels, depth)
    [] pattern = WAVE_PATTERN -> drawWavePattern(levels)
    [] pattern = SYMMETRICAL_WEB -> drawSymmetricalWeb(levels, bytes)
    [] OTHER -> drawFlower(levels)

\* The divisors of the last rendered frame that depend on the samples or on
\* the engine state: the five band means, beatAvg, the rotation step of the
\* symmetry copies, and the colour balances of the patterns drawn.  (Every
\* other divisor in the pattern functions is a literal or a count with a
\* positive literal lower bound.)
FrameDivisors ==
  LET m == Metrics[sample]
  IN  {m.average.den, m.bassLevel.den, m.lowMidLevel.den, m.highMidLevel.den,
       m.trebleLevel.den, Len(audioState.beatDetector.history), actualSymmetry}
      \cup (IF SPIRAL \in DrawnPatterns THEN {ColorBalanceDivisor} ELSE {})
      \cup (IF STARBURST \in DrawnPatterns /\ rendered.levels.bassLevel * 10 > 4 * Unit
            THEN {ColorIntensityDivisor} ELSE {})

\* ================================================================== claims
IsEven(n) == n % 2 = 0

\* C1.  Once a pattern change is triggered, patternTransition grows by
\* exactly 0.025 on every rendered frame, the trigger frame included (it goes
\* from 1 to 0.025), and is never reset before it is exactly 1; on the frame
\* it reaches 1 currentPattern becomes targetPattern; whenever
\* patternTransition = 1, currentPattern = targetPattern.
C1_PatternProgress ==
  /\ [](/\ patternTransition \in 25..1000
        /\ patternTransition = 1000 => currentPattern = targetPattern)
  /\ [][frame' = frame + 1 =>
          /\ patternTransition < 1000 =>
               patternTransition' = patternTransition + 25
          /\ patternTransition = 1000 => patternTransition' \in {1000, 25}
          /\ patternTransition < 1000 /\ patternTransition' = 1000 =>
               currentPattern' = targetPattern /\ targetPattern' = targetPattern
       ]_vars

\* A pattern change has been triggered and its transition has completed.
C1_Witness ==
  /\ patternChangeCounter < frame
  /\ patternTransition = 1000
  /\ currentPattern # FLOWER

\* C2 as stated: on every rendered frame symmetry is an even integer with
\* 4 <= symmetry <= maxSymmetry.
C2_Original ==
  frame >= 1 =>
    /\ IsEven(symmetry)
    /\ 4 <= symmetry
    /\ symmetry <= performanceConfig.maxSymmetry

\* C2 amended: on every rendered frame symmetry is an integer with
\* 4 <= symmetry <= max(8, maxSymmetry), 8 being its initial value;
\* targetSymmetry is even, and once a symmetry change has been triggered
\* also within [4, maxSymmetry]; when the transition of a symmetry change has
\* completed, symmetry = targetSymmetry, hence even and within
\* [4, maxSymmetry].  On interpolation frames symmetry can be odd.
C2_SymmetryRange ==
  /\ symmetry \in 4..Max(8, performanceConfig.maxSymmetry)
  /\ IsEven(targetSymmetry)
  /\ lastSymmetryChange > 0 =>
       targetSymmetry \in 4..performanceConfig.maxSymmetry
  /\ lastSymmetryChange > 0 /\ symmetryTransition = 50 =>
       symmetry = targetSymmetry

\* An interpolation frame with an odd symmetry.
C2_Witness ==
  /\ lastSymmetryChange > 0
  /\ symmetryTransition < 50
  /\ ~IsEven(symmetry)

\* C3.  The beat detector never fires within the cooldown: a beat fires on a
\* rendered frame only if frame - lastBeat > 10, and lastBeat is the frame of
\* the latest beat (0 before the first), so that two beat frames are more
\* than 10 apart.
C3_BeatCooldown ==
  /\ [](rendered.isBeat => audioState.beatDetector.lastBeat = frame)
  /\ [][frame' = frame + 1 =>
          IF rendered'.isBeat
          THEN /\ frame' - audioState.beatDetector.lastBeat > 10
               /\ audioState'.beatDetector.lastBeat = frame'
          ELSE audioState'.beatDetector.lastBeat = audioState.beatDetector.lastBeat
       ]_vars

\* After a beat, a frame on which bass exceeds both thresholds does not fire
\* because the cooldown has not elapsed.
C3_Witness ==
  LET bd == audioState.beatDetector
  IN  /\ bd.lastBeat > 0
      /\ frame > bd.lastBeat
      /\ frame - bd.lastBeat <= 10
      /\ ~rendered.isBeat
      /\ rendered.levels.bassLevel * Len(bd.history) * 10 > SumSeq(bd.history) * 12
      /\ rendered.levels.bassLevel * 10 > 7 * Unit

\* C4.  confidence stays in [0, 1]; a beat frame sets it to
\* min(1, confidence + 0.1), any other rendered frame to
\* max(0, confidence - 0.01).
C4_ConfidenceRange ==
  /\ [](audioState.beatDetector.confidence \in 0..100)
  /\ [][frame' = frame + 1 =>
          audioState'.beatDetector.confidence =
            IF rendered'.isBeat
            THEN Min(100, audioState.beatDetector.confidence + 10)
            ELSE Max(0, audioState.beatDetector.confidence - 1)
       ]_vars

\* A beat has raised confidence and it has decayed back to 0, where a
\* further non-beat frame leaves it.
C4_Witness ==
  /\ audioState.beatDetector.lastBeat > 0
  /\ frame - audioState.beatDetector.lastBeat > 10
  /\ audioState.beatDetector.confidence = 0

\* The first 15 rendered frames all pulled the sample frame BassOnly (the
\* content is constant over the first segment).
BassOnlyFor(n) == frame = n /\ n <= SegmentLen /\ sample = BassOnly

\* C5 as stated: 15 frames of bass 255, the rest 0, from the initial state
\* make the detector fire exactly once, on the first frame with
\* frame - lastBeat > 10 (frame 11), raising confidence by 0.1 there.
C5_Original ==
  BassOnlyFor(15) =>
    /\ audioState.beatDetector.lastBeat = 11
    /\ audioState.beatDetector.confidence = 10 - 4

\* C5 amended: over those 15 frames the detector does not fire at all:
\* on frames 1 to 4 the cooldown frame - lastBeat > 10 does not hold, and
\* from frame 5 on the history holds five times 1.0, so that
\* bass > beatAvg * 1.2 is false; lastBeat and confidence stay 0.
C5_NoBeatOnConstantBass ==
  \A n \in 1..15 :
    BassOnlyFor(n) =>
      /\ ~rendered.isBeat
      /\ audioState.beatDetector.lastBeat = 0
      /\ audioState.beatDetector.confidence = 0

C5_Witness ==
  /\ BassOnlyFor(15)
  /\ audioState.beatDetector.history = [i \in 1..5 |-> Unit]

\* C6 as stated: after the effect cleanup no frame callback runs.
C6_Original == [][~mounted => frameCounter' = frameCounter]_vars

\* A finite quotient within [0, 1].
InUnitInterval(q) == q.den > 0 /\ 0 <= q.num /\ q.num <= q.den

Analysed == probe.metrics # <<>>

\* C7.  For every frequency array of N >= 1 bytes, the five band energies
\* lie in [0, 1], also when N is below the nominal cutoffs.
C7_BandsInRange ==
  Analysed /\ probe.bufferLength >= 1 =>
    LET m == probe.metrics[1]
    IN  /\ InUnitInterval(m.average)
        /\ InUnitInterval(m.bassLevel)
        /\ InUnitInterval(m.lowMidLevel)
        /\ InUnitInterval(m.highMidLevel)
        /\ InUnitInterval(m.trebleLevel)

\* An array shorter than the bass cutoff, all 255: the low-mid, high-mid and
\* treble ranges are empty after clipping, bass and average are 1.
C7_Witness ==
  /\ Analysed
  /\ probe.bufferLength \in 1..9
  /\ probe.metrics[1].bassLevel.num = probe.metrics[1].bassLevel.den
  /\ probe.metrics[1].average.num = probe.metrics[1].average.den
  /\ probe.metrics[1].trebleLevel = Quot(0, 255)

IsZero(q) == q.den # 0 /\ q.num = 0

\* C8 as stated: an empty frequency array yields five band energies of 0.
C8_Original ==
  Analysed /\ probe.bufferLength = 0 =>
    LET m == probe.metrics[1]
    IN  /\ IsZero(m.average)
        /\ IsZero(m.bassLevel)
        /\ IsZero(m.lowMidLevel)
        /\ IsZero(m.highMidLevel)
        /\ IsZero(m.trebleLevel)

\* C9 as stated: with N >= 1 bins no division of a rendered frame has a
\* zero divisor.
C9_Original == frame >= 1 => 0 \notin FrameDivisors

\* C10.  Both progress values never decrease while a transition is active
\* and grow on every rendered frame of it, so no trigger resets a value
\* below 1; a value of 1 stays 1 until a trigger of its own kind.
C10_ProgressMonotone ==
  [][/\ patternTransition < 1000 =>
          /\ patternTransition' >= patternTransition
          /\ frame' = frame + 1 => patternTransition' > patternTransition
     /\ symmetryTransition < 50 =>
          /\ symmetryTransition' >= symmetryTransition
          /\ frame' = frame + 1 => symmetryTransition' > symmetryTransition
     /\ patternTransition = 1000 =>
          patternTransition' = 1000 \/ patternChangeCounter' = 0
     /\ symmetryTransition = 50 =>
          symmetryTransition' = 50 \/ lastSymmetryChange' = frame'
    ]_vars

\* A symmetry transition and a pattern transition have both run to the end.
C10_Witness ==
  /\ lastSymmetryChange > 0
  /\ symmetryTransition = 50
  /\ patternChangeCounter < frame
  /\ patternTransition = 1000

\* A rendered frame, and one on which a pattern change starts: the progress
\* leaves 1 for the first step of a new transition.
RenderedStep == frame' = frame + 1

PatternChangeStep == RenderedStep /\ patternTransition' < patternTransition

\* C11.  A pattern change starts only on a rendered frame that begins with
\* patternTransition = 1 and is at least the 181st rendered frame since the
\* previous change (or the start): patternChangeCounter counts exactly those
\* frames, so two changes are at least 181 rendered frames apart.
C11_PatternDwell ==
  [][/\ patternTransition' < patternTransition => PatternChangeStep
     /\ PatternChangeStep =>
          /\ patternTransition = 1000
          /\ patternChangeCounter + 1 > minPatternDuration
          /\ patternChangeCounter' = 0
     /\ RenderedStep /\ ~PatternChangeStep =>
          patternChangeCounter' = patternChangeCounter + 1
     /\ ~RenderedStep => patternChangeCounter' = patternChangeCounter
    ]_vars

\* A pattern change has started on the first frame the dwell time allows.
C11_Witness ==
  /\ frame = minPatternDuration + 1
  /\ patternChangeCounter = 0
  /\ patternTransition = 25

\* A rendered frame that begins in the stable state with the dwell time
\* elapsed (the test follows patternChangeCounter++).
StableAndDwelled ==
  /\ RenderedStep
  /\ patternTransition = 1000
  /\ patternChangeCounter + 1 > minPatternDuration

\* The large bass impact of the frame being rendered: bass above 0.8 and
\* more than 30 frames since the last impact.
LargeBassImpact ==
  /\ rendered'.levels.bassLevel * 10 > 8 * Unit
  /\ frame' - audioState.lastBassImpact > 30

\* |energyTrend| > 0.07 and |bass - treble| > 0.3 on the frame being rendered.
EnergyAndBands ==
  /\ Abs(audioState'.energyTrend) * 100 > 7 * 3 * Unit
  /\ Abs(rendered'.levels.bassLevel - rendered'.levels.trebleLevel) * 10
       > 3 * Unit

\* C12 as stated: on a stable frame with the dwell time elapsed a pattern
\* change starts exactly if a large bass impact occurs or both
\* |energyTrend| > 0.07 and |bass - treble| > 0.3 hold.
C12_Original ==
  [][StableAndDwelled =>
       (PatternChangeStep <=> (LargeBassImpact \/ EnergyAndBands))]_vars

\* C12.  On a stable frame with the dwell time elapsed a pattern change
\* starts exactly if a large bass impact occurs or |energyTrend| > 0.07,
\* |bass - treble| > 0.3 and, in addition, the bass differs by more than 0.2
\* from the oldest entry of the five-frame bass history (the bass of four
\* rendered frames earlier).
C12_PatternChangeCondition ==
  [][StableAndDwelled =>
       (PatternChangeStep <=>
          \/ LargeBassImpact
          \/ /\ EnergyAndBands
             /\ Abs(rendered'.levels.bassLevel
                      - audioState'.beatDetector.history[1]) * 10 > 2 * Unit)
    ]_vars

\* A pattern change started without a bass impact, by the energy and band
\* conditions alone.
C12_Witness ==
  /\ frame > minPatternDuration
  /\ patternChangeCounter = 0
  /\ patternTransition = 25
  /\ ~rendered.bassImpact

\* The candidate set of a pattern change, by the dominant band of the frame.
BassHeavy(levels) ==
  /\ levels.bassLevel * 10 > 8 * Unit
  /\ levels.bassLevel > levels.highMidLevel

MidHeavy(levels) ==
  /\ levels.highMidLevel * 10 > 7 * Unit
  /\ levels.highMidLevel > levels.bassLevel

TrebleHeavy(levels) == levels.trebleLevel * 10 > 7 * Unit

ProfilePatterns ==
  IF performanceConfig.enableAdvancedEffects
  THEN {SPIRAL, FLOWER, STARBURST, NESTED_CIRCLES, FRACTAL_TREE, WAVE_PATTERN,
        SYMMETRICAL_WEB}
  ELSE {SPIRAL, FLOWER, STARBURST, NESTED_CIRCLES}

Candidates(levels) ==
  IF BassHeavy(levels) THEN {STARBURST, NESTED_CIRCLES, SYMMETRICAL_WEB}
  ELSE IF MidHeavy(levels) THEN {SPIRAL, WAVE_PATTERN, FLOWER}
  ELSE IF TrebleHeavy(levels) THEN {FRACTAL_TREE, NESTED_CIRCLES, FLOWER}
  ELSE ProfilePatterns

\* C13.  On every pattern change the chosen targetPattern differs from
\* currentPattern and belongs to the candidate set of the dominant band
\* (bass-heavy, else mid-heavy, else treble-heavy, else the profile's list);
\* the set is not empty after removing the current pattern; the progress
\* restarts from 0, so that it is one step (0.025) at the end of the frame,
\* and the current pattern is still the old one.
C13_TargetPattern ==
  [][PatternChangeStep =>
       /\ targetPattern' # currentPattern
       /\ targetPattern' \in Candidates(rendered'.levels)
       /\ Candidates(rendered'.levels) \ {currentPattern} # {}
       /\ patternTransition' = 25
       /\ currentPattern' = currentPattern
    ]_vars

\* A pattern change on a mid-heavy frame has chosen among SPIRAL and
\* WAVE_PATTERN, the current pattern FLOWER being excluded.
C13_Witness ==
  /\ patternChangeCounter = 0
  /\ frame > minPatternDuration
  /\ MidHeavy(rendered.levels)
  /\ currentPattern = FLOWER
  /\ targetPattern = WAVE_PATTERN

\* A rendered frame on which a symmetry change starts, and one on which a
\* symmetry transition reaches its end.
SymmetryChangeStep == RenderedStep /\ lastSymmetryChange' = frame'

SymmetryCompleteStep ==
  RenderedStep /\ symmetryTransition < 50 /\ symmetryTransition' = 50

\* The band ranges of a symmetry change.
BassDominant(levels) ==
  /\ levels.bassLevel * 10 > 7 * Unit
  /\ levels.bassLevel > levels.highMidLevel

MidDominant(levels) ==
  ~BassDominant(levels) /\ levels.lowMidLevel * 10 > 6 * Unit

\* C14.  Every symmetry change leaves targetSymmetry within
\* [4, maxSymmetry], so within [4, 6] on the profile with maxSymmetry 6; a
\* computed target above the cap becomes the cap (the mid-dominant range
\* starts at 6, so on the profiles with a cap of at most 6 the target is the
\* cap); on the frame a symmetry transition completes symmetry equals
\* targetSymmetry and is at most the cap.
C14_SymmetryCap ==
  [][/\ SymmetryChangeStep =>
          /\ targetSymmetry' \in minSymmetry..performanceConfig.maxSymmetry
          /\ /\ MidDominant(rendered'.levels)
             /\ performanceConfig.maxSymmetry <= 6
             => targetSymmetry' = performanceConfig.maxSymmetry
     /\ SymmetryCompleteStep =>
          /\ symmetry' = targetSymmetry'
          /\ symmetry' <= performanceConfig.maxSymmetry
     /\ lastSymmetryChange > 0 /\ performanceConfig.maxSymmetry = 6
          => targetSymmetry \in 4..6
    ]_vars

\* On the profile with maxSymmetry 6 a mid-dominant symmetry change, whose
\* computed targets are 6 to 12, has completed at symmetry 6.
C14_Witness ==
  /\ performanceConfig.maxSymmetry = 6
  /\ lastSymmetryChange > 0
  /\ MidDominant(rendered.levels)
  /\ symmetryTransition = 50
  /\ frame = lastSymmetryChange + 49
  /\ symmetry = 6

\* The even integers from lo to hi, clamped to [4, maxSymmetry].
ClampedEvens(lo, hi) ==
  {Min(performanceConfig.maxSymmetry, Max(minSymmetry, t)) :
     t \in {n \in lo..hi : IsEven(n)}}

\* C15 as stated: on every symmetry change targetSymmetry is even, within
\* [4, maxSymmetry], and is the clamped value of a draw from 4 to 8 on a
\* bass-dominant frame, from 6 to 12 on a mid-dominant frame, and from 8 to
\* the cap otherwise.
C15_Original ==
  [][SymmetryChangeStep =>
       /\ IsEven(targetSymmetry')
       /\ targetSymmetry' \in minSymmetry..performanceConfig.maxSymmetry
       /\ targetSymmetry' \in
            IF BassDominant(rendered'.levels) THEN ClampedEvens(4, 8)
            ELSE IF MidDominant(rendered'.levels) THEN ClampedEvens(6, 12)
            ELSE ClampedEvens(8, Max(8, performanceConfig.maxSymmetry))
    ]_vars

\* C16.  fractalDepth stays within 1..4, and the fractal tree of the frame
\* ends: the depth arguments of its calls are exactly fractalDepth down to
\* 0, one less at each level of the recursion, and it strokes at most
\* (3^d - 1) / 2 branches; with the middle branch taken at every depth
\* above 1 the count is exactly that number, 40 for depth 4.
C16_FractalTree ==
  /\ fractalDepth \in 1..4
  /\ LET tree == drawFractalTree(rendered.levels, fractalDepth)
     IN  /\ tree.depths = 0..fractalDepth
         /\ tree.height = fractalDepth + 1
         /\ tree.strokes <= (3 ^ fractalDepth - 1) \div 2
  /\ \A d \in 1..4 :
       /\ Trees[d][TRUE].strokes = (3 ^ d - 1) \div 2
       /\ Trees[d][FALSE].strokes <= Trees[d][TRUE].strokes
  /\ Trees[4][TRUE].strokes = 40

\* A frame draws the fractal tree at depth 4 with the middle branch taken:
\* 40 strokes.
C16_Witness ==
  /\ FRACTAL_TREE \in DrawnPatterns
  /\ fractalDepth = 4
  /\ drawFractalTree(rendered.levels, fractalDepth).strokes = 40

\* C17.  A frame drawn with patternTransition < 1 draws the previous
\* pattern actualSymmetry times at opacity 1 - patternTransition and then
\* the new pattern actualSymmetry times at opacity patternTransition, the
\* two opacities adding up to 1; a frame drawn with patternTransition = 1
\* draws only currentPattern, actualSymmetry times at full opacity.
C17_Crossfade ==
  frame >= 1 =>
    LET n == actualSymmetry
        calls == canvas.calls
    IN  IF patternTransition < 1000
        THEN /\ Len(calls) = 2 * n
             /\ \A i \in 1..n :
                  /\ calls[i] = [pattern |-> currentPattern,
                                 globalAlpha |-> 1000 - patternTransition]
                  /\ calls[n + i] = [pattern |-> targetPattern,
                                     globalAlpha |-> patternTransition]
                  /\ calls[i].globalAlpha + calls[n + i].globalAlpha = 1000
             /\ targetPattern # currentPattern
        ELSE /\ Len(calls) = n
             /\ \A i \in 1..n :
                  calls[i] = [pattern |-> currentPattern, globalAlpha |-> 1000]

\* Half-way through a crossfade, on a profile whose cap cuts the initial
\* symmetry 8 down to 6 copies: 6 calls for FLOWER and 6 for the new pattern,
\* each at opacity 0.5.
C17_Witness ==
  /\ patternTransition = 500
  /\ symmetry = 8
  /\ performanceConfig.maxSymmetry = 6
  /\ Len(canvas.calls) = 12
  /\ canvas.calls[1] = [pattern |-> FLOWER, globalAlpha |-> 500]
  /\ canvas.calls[12] = [pattern |-> STARBURST, globalAlpha |-> 500]

\* The sign of an integer.
Sign(n) == IF n > 0 THEN 1 ELSE IF n < 0 THEN -1 ELSE 0

\* The number of rendered frames since the analyser's content last changed,
\* the current frame included.
FramesInSegment == IF frame = 0 THEN 0 ELSE ((frame - 1) % SegmentLen) + 1

\* C18.  energyHistory always holds 8 values, eight times 0.5 at the start;
\* every rendered frame drops the oldest and appends the frame's average,
\* so the buffer holds the 8 most recent averages, newest last; energyTrend
\* is mean(newest 3) - mean(oldest 3) of the buffer after the push (here
\* times 3), its sign is the sign of that difference, and it is 0 when the
\* 8 values are equal.
C18_EnergyHistory ==
  /\ [](LET h == audioState.energyHistory
            t == audioState.energyTrend
            d == (h[6] + h[7] + h[8]) - (h[1] + h[2] + h[3])
        IN  /\ Len(h) = 8
            /\ frame = 0 => h = [i \in 1..8 |-> Unit \div 2]
            /\ \A i \in 1..8 :
                 i > 8 - FramesInSegment => h[i] = Levels[sample].average
            /\ frame >= 1 =>
                 /\ t = d
                 /\ Sign(t) = Sign(d)
                 /\ (\A i \in 1..8 : h[i] = h[1]) => t = 0)
  /\ [][IF RenderedStep
        THEN /\ rendered'.levels.average = Levels[sample'].average
             /\ audioState'.energyHistory
                  = Tail(audioState.energyHistory)
                      \o <<rendered'.levels.average>>
        ELSE audioState'.energyHistory = audioState.energyHistory]_vars

\* Two frames into a louder segment the two newest entries are the new
\* average, the six older ones the previous average, and the trend is
\* positive; six frames later the buffer is uniform and the trend 0 again.
C18_Witness ==
  LET h == audioState.energyHistory
  IN  /\ frame = SegmentLen + 2
      /\ h[8] = h[7]
      /\ h[7] > h[6]
      /\ \A i \in 1..6 : h[i] = h[1]
      /\ audioState.energyTrend = 2 * (h[8] - h[1])
      /\ audioState.energyTrend > 0

\* The clipped widths of the four bands for an array of n bins.
ClippedWidths(n) ==
  [bassLevel    |-> Min(10, n),
   lowMidLevel  |-> Max(0, Min(40, n) - 10),
   highMidLevel |-> Max(0, Min(100, n) - 40),
   trebleLevel  |-> Max(0, Min(200, n) - 100)]

\* The quotient q times the weight w, in units of 1/255 (every divisor is a
\* count of bins times 255), and whether that product is a whole number of
\* such units.
Weighted(q, w) == (q.num * w) \div (q.den \div 255)

WeightedExact(q, w) == (q.num * w) % (q.den \div 255) = 0

\* C19.  For an array of N >= 1 bins, average * min(200, N) equals
\* bass * w_bass + lowMid * w_lowMid + highMid * w_highMid
\* + treble * w_treble with the clipped band widths, which are 10, 30, 60
\* and 100 when N >= 200 (in exact arithmetic: each product is a sum of
\* bytes over 255).
C19_WeightedMean ==
  Analysed /\ probe.bufferLength >= 1 =>
    LET m == probe.metrics[1]
        n == probe.bufferLength
        w == ClippedWidths(n)
    IN  /\ n >= 200 => w = [bassLevel |-> 10, lowMidLevel |-> 30,
                            highMidLevel |-> 60, trebleLevel |-> 100]
        /\ w.bassLevel + w.lowMidLevel + w.highMidLevel + w.trebleLevel
             = Min(200, n)
        /\ WeightedExact(m.average, Min(200, n))
        /\ \A band \in DOMAIN w : WeightedExact(m[band], w[band])
        /\ Weighted(m.average, Min(200, n))
             = Weighted(m.bassLevel, w.bassLevel)
               + Weighted(m.lowMidLevel, w.lowMidLevel)
               + Weighted(m.highMidLevel, w.highMidLevel)
               + Weighted(m.trebleLevel, w.trebleLevel)

\* An array of 41 bins, which clips the highMid band to one bin and leaves
\* the treble band empty, with energy in all three bands it has.
C19_Witness ==
  /\ Analysed
  /\ probe.bufferLength = 41
  /\ probe.metrics[1].bassLevel.num > 0
  /\ probe.metrics[1].lowMidLevel.num > 0
  /\ probe.metrics[1].highMidLevel.num > 0
  /\ probe.metrics[1].average.num = 41 * 255

\* The band energies of an analysed array of at least 200 bins, in units of
\* 1/Unit, and the bytes it holds.
ProbeLevels ==
  LET m == probe.metrics[1]
  IN  [average      |-> InUnits(m.average),
       bassLevel    |-> InUnits(m.bassLevel),
       lowMidLevel  |-> InUnits(m.lowMidLevel),
       highMidLevel |-> InUnits(m.highMidLevel),
       trebleLevel  |-> InUnits(m.trebleLevel)]

ProbeBytes == {probe.dataArray[i] : i \in 1..probe.bufferLength}

\* C20 as stated: every alpha emitted by the seven pattern functions lies
\* in [0, 1], for all band energies and every fractal depth from 1 to 4.
C20_Original ==
  Analysed /\ probe.bufferLength >= 200 =>
    \A pattern \in SPIRAL..SYMMETRICAL_WEB, depth \in 1..4 :
      \A alpha \in drawPattern(pattern, ProbeLevels, ProbeBytes, depth) :
        InUnitInterval(alpha)

\* C21.  In the visualizers whose hue starts at 0 and advances by 0.5
\* modulo 360 once per frame, after k frames the hue is (0.5 * k) mod 360,
\* which is 140 after 1000 frames, and it lies in [0, 360) after every frame.
C21_HueWraps ==
  /\ frequencyBars.hue = frequencyBars.callbacks % (360 * HalfDegrees)
  /\ 0 <= frequencyBars.hue
  /\ frequencyBars.hue < 360 * HalfDegrees
  /\ frequencyBars.callbacks = 1000 => frequencyBars.hue = 140 * HalfDegrees

\* After 1000 frames, past the wraparound at frame 720, the hue is 140.
C21_Witness ==
  /\ frequencyBars.callbacks = 1000
  /\ frequencyBars.hue = 140 * HalfDegrees

\* C22.  If the analyser is null, the canvas element is missing or the 2D
\* context cannot be obtained when the effect runs, the engine does no
\* work, then and ever after: no listener is registered, no frame callback
\* is requested, nothing is drawn and no engine state exists.
C22_SilentNoOp ==
  /\ [](~host.analyser \/ ~host.canvasRef \/ ~host.context => NotSetUp)
  /\ [][~host.analyser \/ ~host.canvasRef \/ ~host.context
         => UNCHANGED engineVars]_vars

\* The effect has run with the analyser and the canvas there but without a
\* 2D context, and has left everything as it was.
C22_Witness ==
  /\ host.effectRan
  /\ host.analyser /\ host.canvasRef /\ ~host.context
  /\ rafPending = 0
  /\ ~resizeListener


\* A frame callback that runs to its end (or to its frame-skip return).
NextCallback == \E fill \in SampleFrames : draw(fill)

\* C23: the frame callback requests the next callback before any other
\* work. So, while the loop runs, exactly one callback is pending between
\* callbacks; every callback, whether it skips, renders or throws, leaves
\* exactly one pending; and after a callback that threw partway (in the
\* feature extraction or in the drawing) the next callback can run.
C23_LoopSurvives ==
  /\ [](rafPending = 1)
  /\ [][frameCounter' = frameCounter + 1 => rafPending' = 1]_vars
  /\ [](outcome.last = "threw" => ENABLED NextCallback)

\* A callback threw, and a later callback has rendered a frame.
C23_Witness ==
  /\ outcome.uncaught >= 1
  /\ outcome.last = "rendered"
  /\ rafPending = 1
  /\ canvas.calls # <<>>


\* C24 as stated, for the earlier revision: every rendered frame (every
\* callback, since drawEveryNthFrame is 1) increases frame by exactly 1.
C24_Original ==
  [][earlier.frameCounter' = earlier.frameCounter + 1
       => earlier.frame' = earlier.frame + 1]_vars


\* C27 as stated, for the earlier revision: the pattern identifier used to
\* select the drawing function is an index of the pattern table, and the
\* frame draws (no callback ends in the TypeError of calling undefined).
C27_Original ==
  /\ earlier.currentPattern \in patterns
  /\ ~earlier.threw


\* C25 as stated: beatDetector.confidence never exceeds 0.1.
C25_Original ==
  LET bd == audioState.beatDetector
  IN  bd.confidence < 10 \/ (bd.confidence = 10 /\ bd.rounding <= TenthOffset)

\* C25 amended: confidence never exceeds 0.1 by more than rounding error.
\* After n rendered frames it is at most 0.1 + n * 2^-59; under a beat on
\* every 11th rendered frame it is exactly 0.1 after the first beat and one
\* ulp of 0.1 (2^-56) higher after each further beat.  So confidence > 0.6
\* is never true, and every symmetry change starts through the
\* elapsed-frames-and-trend condition: more than 120 rendered frames since
\* the previous change and |energyTrend| > 0.15.
C25_ConfidencePeak ==
  /\ [](LET bd == audioState.beatDetector
        IN  /\ bd.confidence <= 10
            /\ bd.rounding <= frame
            /\ ~(bd.confidence > 60 \/ (bd.confidence = 60 /\ bd.rounding > -20))
            /\ rendered.isBeat =>
                 /\ bd.confidence = 10
                 /\ bd.rounding = 2 + 8 * (frame \div PulseEvery - 1))
  /\ [][SymmetryChangeStep =>
         /\ frame' - lastSymmetryChange > 120
         /\ Abs(audioState'.energyTrend) * 100 > 15 * 3 * Unit]_vars

\* A frame with a beat and a bass impact, the case of the guard
\* bassImpact && confidence > 0.6, with confidence above 0.1 (0.1 + 11 ulps),
\* after a symmetry change that started on frame 121.
C25_Witness ==
  /\ rendered.isBeat
  /\ rendered.bassImpact
  /\ audioState.beatDetector.confidence = 10
  /\ audioState.beatDetector.rounding > TenthOffset
  /\ lastSymmetryChange = 121
  /\ frame = 132


\* C26: on every rendered frame, from the first on and for every quality
\* profile, the number of rotational copies drawn per pattern is
\* min(symmetry, maxSymmetry), an integer from 4 to maxSymmetry.
C26_CopiesInRange ==
  frame > 0 =>
    LET copies == IF patternTransition < 1000
                  THEN Len(canvas.calls) \div 2
                  ELSE Len(canvas.calls)
    IN  /\ copies \in 4..performanceConfig.maxSymmetry
        /\ copies = IF symmetry < performanceConfig.maxSymmetry
                    THEN symmetry
                    ELSE performanceConfig.maxSymmetry
        /\ Len(canvas.calls) \in {copies, 2 * copies}

\* The first rendered frame of the mobile profile: symmetry is still its
\* initial 8, the cap is 4, and four copies are drawn.
C26_Witness ==
  /\ frame = 1
  /\ performanceConfig.maxSymmetry = 4
  /\ symmetry = 8
  /\ Len(canvas.calls) = 4


\* C28 as stated: with enableAdvancedEffects = false every pattern the
\* engine draws, the initial one and every targetPattern chosen on a
\* trigger, is one of SPIRAL, FLOWER, STARBURST, NESTED_CIRCLES.
C28_Original ==
  ~performanceConfig.enableAdvancedEffects =>
    LET limited == {SPIRAL, FLOWER, STARBURST, NESTED_CIRCLES}
    IN  /\ currentPattern \in limited
        /\ targetPattern \in limited
        /\ \A i \in 1..Len(canvas.calls) : canvas.calls[i].pattern \in limited


\* C29: while bassLevel is above 0.8 on every rendered frame, bass impacts
\* recur exactly every 31 rendered frames (on frames 31, 62, ...); after the
\* start and after any pattern-change trigger the next trigger comes within
\* at most 211 rendered frames; and every trigger finds the previous
\* transition completed (patternTransition = 1).
C29_BassDrivenChanges ==
  /\ [](frame > 0 => rendered.levels.bassLevel * 10 > 8 * Unit)
  /\ [](patternChangeCounter < 211)
  /\ [](audioState.lastBassImpact = frame - (frame % 31))
  /\ [][RenderedStep => (rendered'.bassImpact <=> frame' % 31 = 0)]_vars
  /\ [][PatternChangeStep =>
         patternTransition = 1000 /\ patternChangeCounter < 211]_vars

\* The second pattern change: triggered on frame 372 by the twelfth bass
\* impact, 186 frames after the first.
C29_Witness ==
  /\ frame = 372
  /\ rendered.bassImpact
  /\ patternChangeCounter = 0
  /\ patternTransition = 25


\* C30: a callback on which frameCounter mod drawEveryNthFrame is not 0
\* pulls no samples, draws nothing and leaves frame, the two history
\* buffers, the beat state, the transition state, hue and rotation as they
\* were: only frameCounter and the request for the next callback change.
\* Any other callback renders a frame, so exactly one of every
\* drawEveryNthFrame consecutive callbacks is rendered.
C30_SkippedFrames ==
  /\ [][frameCounter' = frameCounter + 1 =>
         IF frameCounter' % performanceConfig.drawEveryNthFrame # 0
         THEN /\ UNCHANGED <<frame, audioState, symmetry, lastSymmetryChange,
                             targetSymmetry, symmetryTransition, fractalDepth,
                             currentPattern, targetPattern, patternTransition,
                             patternChangeCounter, hue, rotation, rendered,
                             canvas, sample, performanceConfig>>
              /\ rafPending' = rafPending
         ELSE /\ frame' = frame + 1
              /\ hue' # hue
              /\ rotation' # rotation
              /\ canvas'.calls # <<>>]_vars
  /\ [](frame = frameCounter \div performanceConfig.drawEveryNthFrame)

\* Two skipped callbacks in a row (drawEveryNthFrame = 3) after the first
\* rendered frame, whose drawing is still on the canvas.
C30_Witness ==
  /\ outcome.last = "skipped"
  /\ performanceConfig.drawEveryNthFrame = 3
  /\ frameCounter = 5
  /\ frame = 1
  /\ hue = 1
  /\ canvas.calls # <<>>

====
